---- MODULE Spec2Model ----
(***************************************************************************)
(* Model of the andromeda ray tracer: the work partitioner and reducer of  *)
(* parallel.py, the photon list / image assembly / intersection resolver   *)
(* of common/common.py and the linear disk of                              *)
(* accretion_structures/simple_disk.py.                                    *)
(*                                                                         *)
(* Radii are integers.  A flux value is an exact fraction <<n, d>> in      *)
(* lowest terms with d > 0; <<1, 0>> stands for the ZeroDivisionError that *)
(* Python raises on a division by zero.  A phase state is the 8-tuple      *)
(* <<t, r, theta, phi, k_t, k_r, k_theta, k_phi>>; theta is a code whose   *)
(* cosine is tabulated by Cos1000.  Pixel indices are 0-based as in the    *)
(* source; sequences are 1-based, so sample k of Python is sol[k + 1].     *)
(***************************************************************************)
EXTENDS Integers, Sequences, FiniteSets, TLC

(* ------------------------------ bounds -------------------------------- *)
MaxX == 5
MaxY == 3
MaxW == 3
MaxR == 4
MaxSamples == 3

(* --------------------------- exact fractions -------------------------- *)
Abs(a) == IF a < 0 THEN -a ELSE a

RECURSIVE Gcd(_, _)
Gcd(a, b) == IF b = 0 THEN a ELSE Gcd(b, a % b)

Zero == <<0, 1>>
One == <<1, 1>>
ZeroDivisionError == <<1, 0>>

Rat(n, d) ==
    LET g == Gcd(Abs(n), Abs(d))
        s == IF d < 0 THEN -1 ELSE 1
    IN  <<(s * n) \div g, (s * d) \div g>>

Int2Rat(n) == <<n, 1>>

RatAdd(p, q) == Rat(p[1] * q[2] + q[1] * p[2], p[2] * q[2])
RatMul(p, q) == Rat(p[1] * q[1], p[2] * q[2])
RatDiv(p, q) == IF q[1] = 0 THEN ZeroDivisionError
                ELSE Rat(p[1] * q[2], p[2] * q[1])

(* ------------------------------ state --------------------------------- *)
VARIABLES
    x_pixels, y_pixels,   \* detector grid
    size,                 \* number of MPI ranks
    in_edge, out_edge,    \* structure.in_edge, structure.out_edge
    pc,                   \* rank -> position in the main sequence
    lin,                  \* rank -> <<start_idx, end_idx>> of distribute
    bounds,               \* rank -> <<start_alpha, start_beta, end_alpha, end_beta>>
    photon_list,          \* rank -> Image.photon_list, photons as <<i, j>>
    cursor,               \* rank -> photons of photon_list already traced
    image_data,           \* rank -> Image.image_data (<< >> before create_image)
    gathered,             \* rank -> buffer handed to comm.gather (<< >> = not yet)
    final_image_data,     \* rank -> value returned by gather_and_process_data
    reductions,           \* number of executions of the rank-0 branch
    sol,                  \* trajectory of the photon under geo_integ
    fP,                   \* Photon.fP
    g_pc,                 \* position of the single-photon pipeline
    probe_r, flux         \* argument and result of energy_flux

vars == <<x_pixels, y_pixels, size, in_edge, out_edge, pc, lin, bounds,
          photon_list, cursor, image_data, gathered, final_image_data,
          reductions, sol, fP, g_pc, probe_r, flux>>

renderVars == <<pc, lin, bounds, photon_list, cursor, image_data, gathered,
                final_image_data, reductions>>
gridVars == <<x_pixels, y_pixels, size>>
edgeVars == <<in_edge, out_edge>>
geoVars == <<sol, fP, g_pc, probe_r, flux>>

None == << >>
Ranks == 0 .. (size - 1)

(* ----------------------- simple_disk.structure ------------------------ *)
energy_flux(r) ==
    LET m == RatDiv(One, Int2Rat(in_edge - out_edge))
        intensity == IF m = ZeroDivisionError THEN ZeroDivisionError
                     ELSE RatMul(m, Int2Rat(r - out_edge))
    IN  IF m = ZeroDivisionError THEN ZeroDivisionError
        ELSE IF r > in_edge /\ r < out_edge THEN intensity
        ELSE Zero

(* --------------------------- common.geo_integ ------------------------- *)
EH == 2

ZeroState == <<0, 0, 0, 0, 0, 0, 0, 0>>

\* 1000 * cos(theta) for the theta codes: 0 is the pole (theta = 0),
\* 1 the equatorial plane (theta = pi/2), 2 slightly off the plane.
Cos1000(th) == CASE th = 0 -> 1000
                 [] th = 1 -> 0
                 [] OTHER  -> 30

\* sol[:,1] < blackhole.EH + 1e-5, for one sample
InsideHorizon(s) == s[2] * 100000 < EH * 100000 + 1

\* (abs(sol[:,1]*cos(sol[:,2])) < 1e-1) & (sol[:,1] > in_edge) & (sol[:,1] < out_edge),
\* for one sample
CrossesDisk(s) ==
    /\ Abs(s[2] * Cos1000(s[3])) * 10 < 1000
    /\ s[2] > in_edge
    /\ s[2] < out_edge

\* the boolean arrays over the samples of the trajectory
eh_condition(traj) == [k \in 1 .. Len(traj) |-> InsideHorizon(traj[k])]
edge_condition(traj) == [k \in 1 .. Len(traj) |-> CrossesDisk(traj[k])]

\* numpy.argmax of a boolean array: 0-based index of the first True,
\* and 0 when no element is True.
RECURSIVE FirstTrue(_, _)
FirstTrue(cond, k) ==
    IF k >= Len(cond) THEN 0
    ELSE IF cond[k + 1] THEN k
    ELSE FirstTrue(cond, k + 1)

argmax(cond) == FirstTrue(cond, 0)

\* mutant: the horizon test placed before the disk test
geo_integ_m(traj) ==
    LET indx_eh == argmax(eh_condition(traj))
        indx_edge == argmax(edge_condition(traj))
    IN  IF eh_condition(traj)[indx_eh + 1] THEN ZeroState
        ELSE IF edge_condition(traj)[indx_edge + 1] THEN traj[indx_edge + 1]
        ELSE ZeroState

geo_integ(traj) ==
    LET indx_eh == argmax(eh_condition(traj))
        indx_edge == argmax(edge_condition(traj))
    IN  IF edge_condition(traj)[indx_edge + 1] THEN traj[indx_edge + 1]
        ELSE IF eh_condition(traj)[indx_eh + 1] THEN ZeroState
        ELSE ZeroState

\* A trajectory from the (r, theta) of its samples; the t coordinate runs
\* backward with the affine parameter.
MkSol(rs) == [k \in 1 .. Len(rs) |-> <<1 - k, rs[k][1], rs[k][2], 0, 0, 0, 0, 0>>]

\* odeint(blackhole.geodesics, p.iC, lmbda) for the photon of pixel (i, j):
\* a fixed function of the pixel.  In turn along the anti-diagonals: a ray
\* that crosses the disk plane before the horizon, one whose crossing sample
\* is also inside the horizon margin, a captured ray and an escaping ray.
Catalogue ==
    << <<<<4, 0>>, <<3, 1>>, <<1, 0>>>>,
       <<<<3, 0>>, <<2, 1>>, <<3, 1>>>>,
       <<<<3, 0>>, <<2, 0>>, <<1, 0>>>>,
       <<<<4, 0>>, <<3, 0>>, <<4, 0>>>> >>

odeint(i, j) == MkSol(Catalogue[((i + j) % Len(Catalogue)) + 1])

(* ------------------------------ detector ------------------------------ *)
LenAlphaRange == x_pixels
LenBetaRange == y_pixels

(* ------------------------- parallel.distribute ------------------------ *)
\* mutant: the remainder left out of the start of the later ranks
distribute_idx_m(rank, sz) ==
    LET total_photons == x_pixels * y_pixels
        photons_per_rank == total_photons \div sz
        rest == total_photons % sz
    IN  IF rank < rest
        THEN <<rank * (photons_per_rank + 1),
               rank * (photons_per_rank + 1) + photons_per_rank + 1>>
        ELSE <<rank * photons_per_rank,
               (rank * photons_per_rank) + photons_per_rank>>

distribute_idx(rank, sz) ==
    LET total_photons == x_pixels * y_pixels
        photons_per_rank == total_photons \div sz
        rest == total_photons % sz
    IN  IF rank < rest
        THEN <<rank * (photons_per_rank + 1),
               rank * (photons_per_rank + 1) + photons_per_rank + 1>>
        ELSE <<(rank * photons_per_rank) + rest,
               (rank * photons_per_rank) + rest + photons_per_rank>>

distribute(rank, sz) ==
    LET idx == distribute_idx(rank, sz)
    IN  <<idx[1] \div LenBetaRange, idx[1] % LenBetaRange,
          idx[2] \div LenBetaRange, idx[2] % LenBetaRange>>

(* ------------------------ Image.create_photons ------------------------ *)
\* mutant: every row starts at start_beta
beta_start_m(b, i) == b[2]

\* mutant: the last row runs to the end of betaRange like the others
beta_end_m(b, i) == LenBetaRange

beta_start(b, i) == IF i = b[1] THEN b[2] ELSE 0
beta_end(b, i) == IF i = b[3] THEN b[4] ELSE LenBetaRange

\* for j in range(beta_start, beta_end)
RECURSIVE RowPhotons(_, _, _)
RowPhotons(i, j, stop) ==
    IF j >= stop THEN << >>
    ELSE <<<<i, j>>>> \o RowPhotons(i, j + 1, stop)

\* for i in range(self.start_alpha, self.end_alpha + 1)
RECURSIVE PhotonLoop(_, _)
PhotonLoop(b, i) ==
    IF i >= b[3] + 1 THEN << >>
    ELSE RowPhotons(i, beta_start(b, i), beta_end(b, i)) \o PhotonLoop(b, i + 1)

\* alphaRange[i] and betaRange[j] raise IndexError past the end of the ranges
InRange(p) == p[1] < LenAlphaRange /\ p[2] < LenBetaRange

RECURSIVE GoodPrefix(_)
GoodPrefix(ps) ==
    IF ps = << >> THEN << >>
    ELSE IF ~InRange(Head(ps)) THEN << >>
    ELSE <<Head(ps)>> \o GoodPrefix(Tail(ps))

create_photons(b) == PhotonLoop(b, b[1])

(* ------------------------- Image.create_image ------------------------- *)
\* mutant: the buffer not cleared to zero
zeros_m == [i \in 1 .. x_pixels |-> [j \in 1 .. y_pixels |-> One]]

zeros == [i \in 1 .. x_pixels |-> [j \in 1 .. y_pixels |-> Zero]]

\* self.image_data[p.i, p.j] = value
Store(img, p, value) ==
    [img EXCEPT ![p[1] + 1] = [@ EXCEPT ![p[2] + 1] = value]]

\* one pass of the loop body: geo_integ, then energy_flux(p.fP[1])
PixelValue(p) == energy_flux(geo_integ(odeint(p[1], p[2]))[2])

(* ------------------- parallel.gather_and_process_data ----------------- *)
BufAdd(a, b) == [i \in 1 .. x_pixels |-> [j \in 1 .. y_pixels |-> RatAdd(a[i][j], b[i][j])]]

\* numpy.sum(gathered_image_data, axis=0)
RECURSIVE SumUpTo(_, _)
SumUpTo(g, k) == IF k = 0 THEN g[0] ELSE BufAdd(SumUpTo(g, k - 1), g[k])

\* mutant: the root keeps its own buffer instead of the sum
sum_m(g) == g[0]

sum(g) == SumUpTo(g, size - 1)

(* ====================== the parallel render =========================== *)
GeoIdle ==
    /\ sol = << >>
    /\ fP = ZeroState
    /\ g_pc = "off"
    /\ probe_r = 0
    /\ flux = Zero

\* (R_min, R_max) handed to structure(blackhole, R_min, R_max): two disks,
\* one with equal edges and one with the edges swapped; __init__ stores
\* whatever it is given.
Extents == {<<1, 4>>, <<0, 3>>, <<2, 2>>, <<3, 1>>}

Init ==
    /\ x_pixels \in 1 .. MaxX
    /\ y_pixels \in 1 .. MaxY
    /\ size \in 1 .. MaxW
    /\ \E e \in Extents : in_edge = e[1] /\ out_edge = e[2]
    /\ pc = [r \in Ranks |-> "distribute"]
    /\ lin = [r \in Ranks |-> <<0, 0>>]
    /\ bounds = [r \in Ranks |-> <<0, 0, 0, 0>>]
    /\ photon_list = [r \in Ranks |-> << >>]
    /\ cursor = [r \in Ranks |-> 0]
    /\ image_data = [r \in Ranks |-> None]
    /\ gathered = [r \in Ranks |-> None]
    /\ final_image_data = [r \in Ranks |-> None]
    /\ reductions = 0
    /\ GeoIdle

\* start_alpha, start_beta, end_alpha, end_beta = distribute(rank, size, detector)
Distribute(r) ==
    /\ pc[r] = "distribute"
    /\ lin' = [lin EXCEPT ![r] = distribute_idx(r, size)]
    /\ bounds' = [bounds EXCEPT ![r] = distribute(r, size)]
    /\ pc' = [pc EXCEPT ![r] = "create_photons"]
    /\ UNCHANGED <<photon_list, cursor, image_data, gathered,
                   final_image_data, reductions>>
    /\ UNCHANGED <<gridVars, edgeVars, geoVars>>

\* image.create_photons(blackhole, detector)
CreatePhotons(r) ==
    /\ pc[r] = "create_photons"
    /\ LET ps == create_photons(bounds[r])
           good == GoodPrefix(ps)
       IN  /\ photon_list' = [photon_list EXCEPT ![r] = good]
           /\ pc' = [pc EXCEPT ![r] = IF good = ps THEN "create_image"
                                      ELSE "IndexError"]
    /\ UNCHANGED <<lin, bounds, cursor, image_data, gathered,
                   final_image_data, reductions>>
    /\ UNCHANGED <<gridVars, edgeVars, geoVars>>

\* image.create_image: self.image_data = zeros([x_pixels, y_pixels])
CreateImage(r) ==
    /\ pc[r] = "create_image"
    /\ image_data' = [image_data EXCEPT ![r] = zeros]
    /\ cursor' = [cursor EXCEPT ![r] = 0]
    /\ pc' = [pc EXCEPT ![r] = IF photon_list[r] = << >> THEN "gather"
                               ELSE "tracing"]
    /\ UNCHANGED <<lin, bounds, photon_list, gathered, final_image_data,
                   reductions>>
    /\ UNCHANGED <<gridVars, edgeVars, geoVars>>

\* image.create_image: one pass of `for p in self.photon_list`
TracePhoton(r) ==
    /\ pc[r] = "tracing"
    /\ LET p == photon_list[r][cursor[r] + 1]
           value == PixelValue(p)
       IN  IF value = ZeroDivisionError
           THEN /\ pc' = [pc EXCEPT ![r] = "ZeroDivisionError"]
                /\ UNCHANGED <<image_data, cursor>>
           ELSE /\ image_data' = [image_data EXCEPT ![r] = Store(@, p, value)]
                /\ cursor' = [cursor EXCEPT ![r] = @ + 1]
                /\ pc' = [pc EXCEPT ![r] =
                            IF cursor[r] + 1 = Len(photon_list[r])
                            THEN "gather" ELSE "tracing"]
    /\ UNCHANGED <<lin, bounds, photon_list, gathered, final_image_data,
                   reductions>>
    /\ UNCHANGED <<gridVars, edgeVars, geoVars>>

\* mutant: every rank gets its buffer back, the `else: return None` lost
Gather_m(r) ==
    /\ pc[r] = "gather"
    /\ gathered' = [gathered EXCEPT ![r] = image_data[r]]
    /\ pc' = [pc EXCEPT ![r] = IF r = 0 THEN "gathering" ELSE "done"]
    /\ final_image_data' = [final_image_data EXCEPT ![r] =
                               IF r = 0 THEN None ELSE image_data[r]]
    /\ UNCHANGED <<lin, bounds, photon_list, cursor, image_data, reductions>>
    /\ UNCHANGED <<gridVars, edgeVars, geoVars>>

\* gather_and_process_data: the rank's call of comm.gather(image_data, root=0);
\* a rank other than 0 returns None, rank 0 waits for every buffer.
Gather(r) ==
    /\ pc[r] = "gather"
    /\ gathered' = [gathered EXCEPT ![r] = image_data[r]]
    /\ pc' = [pc EXCEPT ![r] = IF r = 0 THEN "gathering" ELSE "done"]
    /\ final_image_data' = [final_image_data EXCEPT ![r] = None]
    /\ UNCHANGED <<lin, bounds, photon_list, cursor, image_data, reductions>>
    /\ UNCHANGED <<gridVars, edgeVars, geoVars>>

\* gather_and_process_data on rank 0 once comm.gather has every buffer
Reduce ==
    /\ pc[0] = "gathering"
    /\ \A r \in Ranks : gathered[r] # None
    /\ final_image_data' = [final_image_data EXCEPT ![0] = sum(gathered)]
    /\ reductions' = reductions + 1
    /\ pc' = [pc EXCEPT ![0] = "done"]
    /\ UNCHANGED <<lin, bounds, photon_list, cursor, image_data, gathered>>
    /\ UNCHANGED <<gridVars, edgeVars, geoVars>>

Worker(r) ==
    \/ Distribute(r)
    \/ CreatePhotons(r)
    \/ CreateImage(r)
    \/ TracePhoton(r)
    \/ Gather(r)

Next ==
    \/ \E r \in Ranks : Worker(r)
    \/ Reduce

Spec == Init /\ [][Next]_vars

\* comm.gather is a collective: a rank that has reached it makes its call,
\* and the root's call returns once every rank has made its own.
LiveSpec ==
    /\ Spec
    /\ \A r \in 0 .. (MaxW - 1) : WF_vars(r \in Ranks /\ Gather(r))
    /\ WF_vars(Reduce)

(* ============== one photon through geo_integ and energy_flux ========== *)
RenderIdle ==
    /\ x_pixels = 1
    /\ y_pixels = 1
    /\ size = 1
    /\ pc = [r \in Ranks |-> "off"]
    /\ lin = [r \in Ranks |-> <<0, 0>>]
    /\ bounds = [r \in Ranks |-> <<0, 0, 0, 0>>]
    /\ photon_list = [r \in Ranks |-> << >>]
    /\ cursor = [r \in Ranks |-> 0]
    /\ image_data = [r \in Ranks |-> None]
    /\ gathered = [r \in Ranks |-> None]
    /\ final_image_data = [r \in Ranks |-> None]
    /\ reductions = 0

Samples == (0 .. MaxR) \X {0, 1, 2}

Trajectories ==
    UNION {[1 .. n -> Samples] : n \in 1 .. MaxSamples}

InitGeo ==
    /\ RenderIdle
    /\ in_edge \in 0 .. MaxR
    /\ out_edge \in 0 .. MaxR
    /\ \E rs \in Trajectories : sol = MkSol(rs)
    /\ fP = ZeroState
    /\ g_pc = "geo_integ"
    /\ probe_r = 0
    /\ flux = Zero

\* geo_integ(p, blackhole, acc_structure, self.detector)
GeoInteg ==
    /\ g_pc = "geo_integ"
    /\ fP' = geo_integ(sol)
    /\ g_pc' = "energy_flux"
    /\ UNCHANGED <<sol, probe_r, flux>>
    /\ UNCHANGED <<gridVars, edgeVars, renderVars>>

\* self.image_data[p.i, p.j] = acc_structure.energy_flux(p.fP[1])
EnergyFlux ==
    /\ g_pc = "energy_flux"
    /\ probe_r' = fP[2]
    /\ flux' = energy_flux(fP[2])
    /\ g_pc' = IF energy_flux(fP[2]) = ZeroDivisionError
               THEN "ZeroDivisionError" ELSE "stored"
    /\ UNCHANGED <<sol, fP>>
    /\ UNCHANGED <<gridVars, edgeVars, renderVars>>

NextGeo == GeoInteg \/ EnergyFlux

SpecGeo == InitGeo /\ [][NextGeo]_vars

(* ===================== energy_flux at any radius ====================== *)
InitFlux ==
    /\ RenderIdle
    /\ in_edge \in 0 .. MaxR
    /\ out_edge \in 0 .. MaxR
    /\ sol = << >>
    /\ fP = ZeroState
    /\ g_pc = "probe"
    /\ probe_r = 0
    /\ flux = Zero

\* acc_structure.energy_flux(r)
Probe ==
    /\ g_pc \in {"probe", "returned", "ZeroDivisionError"}
    /\ \E r \in 0 .. (MaxR + 1) :
         /\ probe_r' = r
         /\ flux' = energy_flux(r)
         /\ g_pc' = IF energy_flux(r) = ZeroDivisionError
                    THEN "ZeroDivisionError" ELSE "returned"
    /\ UNCHANGED <<sol, fP>>
    /\ UNCHANGED <<gridVars, edgeVars, renderVars>>

NextFlux == Probe

SpecFlux == InitFlux /\ [][NextFlux]_vars

(* ============================== claims ================================ *)
Pixels == (0 .. (x_pixels - 1)) \X (0 .. (y_pixels - 1))
Total == x_pixels * y_pixels
Distributed(r) == pc[r] # "distribute"
Created(r) == pc[r] \notin {"distribute", "create_photons"}

\* the (rank, position) pairs at which pixel px stands in a photon list
Makers(px) ==
    {rk \in UNION {{r} \X (1 .. Len(photon_list[r])) : r \in Ranks} :
        photon_list[rk[1]][rk[2]] = px}

\* C1: with the bounds distribute returns for ranks 0..W-1, create_photons
\* creates every pixel of the grid as a photon of exactly one rank: never
\* twice, and none is missing once every rank has built its list.
C1_ExactlyOneRank ==
    /\ \A px \in Pixels : Cardinality(Makers(px)) <= 1
    /\ (\A r \in Ranks : Created(r)) =>
          \A px \in Pixels : Cardinality(Makers(px)) = 1

\* C1 witness: every rank has built its list and one rank has a partial
\* first row, a partial last row and a full row in between.
C1_Witness ==
    /\ \A r \in Ranks : Created(r)
    /\ \E r \in Ranks :
         /\ bounds[r][2] > 0
         /\ bounds[r][4] > 0
         /\ bounds[r][3] >= bounds[r][1] + 2
         /\ Len(photon_list[r]) = y_pixels + 2

RangeSize(r) == lin[r][2] - lin[r][1]

RECURSIVE SumSizes(_)
SumSizes(k) == IF k < 0 THEN 0 ELSE RangeSize(k) + SumSizes(k - 1)

\* C2: the linear ranges [start_idx, end_idx) of distribute start at 0, end
\* at width*height, are contiguous and disjoint, have total \div W + 1
\* pixels below rank total % W and total \div W from there on, and their
\* sizes add up to total.
C2_LinearRanges ==
    /\ Distributed(0) => lin[0][1] = 0
    /\ Distributed(size - 1) => lin[size - 1][2] = Total
    /\ \A r \in Ranks : Distributed(r) =>
          /\ RangeSize(r) = (Total \div size) + (IF r < Total % size THEN 1 ELSE 0)
          /\ (r + 1 \in Ranks /\ Distributed(r + 1)) => lin[r][2] = lin[r + 1][1]
          /\ \A q \in Ranks : (q > r /\ Distributed(q)) => lin[r][2] <= lin[q][1]
    /\ (\A r \in Ranks : Distributed(r)) => SumSizes(size - 1) = Total

\* C2 witness: every rank has its range, and the pixels do not divide evenly.
C2_Witness ==
    /\ size >= 2
    /\ Total % size # 0
    /\ Total > size
    /\ \A r \in Ranks : Distributed(r)

RECURSIVE RenderList(_, _)
RenderList(img, ps) ==
    IF ps = << >> THEN img
    ELSE RenderList(Store(img, Head(ps), PixelValue(Head(ps))), Tail(ps))

\* the buffer of one worker that walks the whole grid (W = 1)
SinglePass == RenderList(zeros, create_photons(distribute(0, 1)))

\* C3: whatever the order in which the ranks finish, the image rank 0
\* obtains by summing the gathered buffers equals, pixel by pixel, the
\* buffer of a single worker's pass over the whole grid.
C3_WorkerCountInvariance ==
    final_image_data[0] # None => final_image_data[0] = SinglePass

\* C3 witness: several ranks, a reduced image with a fractional pixel.
C3_Witness ==
    /\ size >= 2
    /\ final_image_data[0] # None
    /\ \E px \in Pixels : final_image_data[0][px[1] + 1][px[2] + 1][2] > 1

\* C7: create_photons raises no IndexError for any rank, reads alphaRange and
\* betaRange only inside the grid (also when end_alpha is the number of
\* rows), and a rank whose range is empty creates no photon and keeps an
\* all-zero buffer.
C7_NoIndexError ==
    \A r \in Ranks :
        /\ pc[r] # "IndexError"
        /\ Distributed(r) =>
              \A k \in 1 .. Len(create_photons(bounds[r])) :
                  create_photons(bounds[r])[k] \in Pixels
        /\ Created(r) => photon_list[r] = create_photons(bounds[r])
        /\ (Created(r) /\ lin[r][1] = lin[r][2]) => photon_list[r] = << >>
        /\ (lin[r][1] = lin[r][2] /\ image_data[r] # None) => image_data[r] = zeros

\* C7 witness: more ranks than pixels; the last rank, whose end_alpha is the
\* number of rows, is empty and has handed over its all-zero buffer.
C7_Witness ==
    /\ size > Total
    /\ bounds[size - 1][3] = x_pixels
    /\ lin[size - 1][1] = lin[size - 1][2]
    /\ pc[size - 1] = "done"
    /\ gathered[size - 1] = zeros

LinIdx(p) == p[1] * y_pixels + p[2]

\* C9: a worker's buffer always has the dimensions of the full grid; it is
\* zero outside the worker's own range and at the photons not traced yet;
\* the photon list is the range in row-major order and the traced photons
\* hold their values.
C9_ZeroOutsideRange ==
    \A r \in Ranks :
        /\ Created(r) =>
              \A k \in 1 .. Len(photon_list[r]) :
                  LinIdx(photon_list[r][k]) = lin[r][1] + k - 1
        /\ image_data[r] # None =>
              /\ Len(image_data[r]) = x_pixels
              /\ \A i \in 1 .. x_pixels : Len(image_data[r][i]) = y_pixels
              /\ \A px \in Pixels :
                    (LinIdx(px) < lin[r][1] \/ LinIdx(px) >= lin[r][2])
                        => image_data[r][px[1] + 1][px[2] + 1] = Zero
              /\ \A k \in 1 .. Len(photon_list[r]) :
                    LET p == photon_list[r][k]
                    IN  image_data[r][p[1] + 1][p[2] + 1] =
                            IF k <= cursor[r] THEN PixelValue(p) ELSE Zero

\* C9 witness: a worker in the middle of its list with a nonzero pixel
\* written, while the pixels of another rank exist.
C9_Witness ==
    /\ size >= 2
    /\ \E r \in Ranks :
         /\ pc[r] = "tracing"
         /\ cursor[r] >= 1
         /\ \E k \in 1 .. cursor[r] :
              image_data[r][photon_list[r][k][1] + 1][photon_list[r][k][2] + 1] # Zero

Finished(r) == pc[r] \in {"gather", "gathering", "done"}

C10_Barrier ==
    /\ reductions <= 1
    /\ (reductions = 1) <=> (final_image_data[0] # None)
    /\ \A r \in Ranks : r # 0 => final_image_data[r] = None
    /\ \A r \in Ranks : gathered[r] # None =>
          /\ pc[r] \in {"gathering", "done"}
          /\ cursor[r] = Len(photon_list[r])
          /\ gathered[r] = image_data[r]
    /\ reductions = 1 => \A r \in Ranks : gathered[r] # None

\* C10: the reduction runs at most once, on rank 0 only, and only when every
\* rank has finished its range and handed its buffer to the gather; the other
\* ranks get None; and once every rank has finished its range, rank 0
\* eventually holds the final image.
C10_ReduceAfterAll ==
    /\ []C10_Barrier
    /\ (\A r \in Ranks : Finished(r)) ~> (final_image_data[0] # None)

\* C10 witness: several ranks and the reduction done.
C10_Witness ==
    /\ size >= 2
    /\ reductions = 1
    /\ \A r \in Ranks : pc[r] = "done"

\* C6: an extent with inner_edge >= outer_edge is rejected before any photon
\* is traced, and no failure shows up while a pixel is processed.
C6_FailFast ==
    in_edge >= out_edge =>
        \A r \in Ranks : cursor[r] = 0 /\ pc[r] # "ZeroDivisionError"

DiskIdx == {k \in 1 .. Len(sol) : CrossesDisk(sol[k])}
HorizonIdx == {k \in 1 .. Len(sol) : InsideHorizon(sol[k])}
Min(S) == CHOOSE k \in S : \A m \in S : k <= m

\* C4: when some sample satisfies the disk-crossing condition, the terminal
\* state is the first such sample, wherever the horizon condition holds, and
\* it is not the all-zero state.
C4_DiskFirst ==
    (g_pc # "geo_integ" /\ DiskIdx # {}) =>
        /\ fP = sol[Min(DiskIdx)]
        /\ fP # ZeroState

\* C4 witness: the horizon condition holds before the first crossing sample
\* and at the crossing sample itself.
C4_Witness ==
    /\ g_pc # "geo_integ"
    /\ DiskIdx # {}
    /\ Min(DiskIdx) \in HorizonIdx
    /\ \E k \in HorizonIdx : k < Min(DiskIdx)

\* C5: when no sample satisfies the disk-crossing condition the terminal
\* state stays all-zero (sample 0 is no event) and the value stored for the
\* pixel, energy_flux(0), is zero.
C5_EscapeZero ==
    (g_pc # "geo_integ" /\ DiskIdx = {}) =>
        /\ fP = ZeroState
        /\ g_pc # "energy_flux" => (g_pc = "stored" /\ flux = Zero)

\* C8: energy_flux(r) is the linear profile (r - out_edge)/(in_edge - out_edge)
\* for in_edge < r < out_edge and zero for every other r, the two edges
\* included.
C8_StrictInterval ==
    g_pc # "probe" =>
        /\ g_pc = "returned"
        /\ flux = IF probe_r > in_edge /\ probe_r < out_edge
                  THEN Rat(probe_r - out_edge, in_edge - out_edge)
                  ELSE Zero

====
